---- MODULE Spec2Model ----
(***************************************************************************)
(* A model of gosam's monocryst.py: the lattice catalog, the name lookup,  *)
(* the box filler (OrthorhombicPbcModel) and the oriented monocrystal      *)
(* builder (RotatedMonocrystal).                                           *)
(*                                                                         *)
(* Numbers.  Lengths are integers in units of 1e-7 Angstrom (3.615 A is    *)
(* 36150000, eps = 0.001 A is 10000).  Fractional coordinates are integers *)
(* in eighths of the unit cell (0.25 is 2, 0.125 is 1).  The matrix M_1 of *)
(* a unit cell maps a fractional row vector in eighths to an absolute      *)
(* position, so its entries are the source's entries divided by 8; every   *)
(* lattice parameter of the catalog is a multiple of 8 in these units, so  *)
(* the arithmetic of the model is exact.                                   *)
(*                                                                         *)
(* Python values.  A str is a record with its sequence of characters, a    *)
(* tuple a record with its sequence of items; True, False, None and the    *)
(* integers are kept apart, as `is`, `==` and `in` tell them apart.        *)
(***************************************************************************)
EXTENDS Integers, Sequences, FiniteSets, TLC

VARIABLES
    lattice,   \* the CrystalLattice the model holds (unit cell shared, mutable)
    dim,       \* RotatedMonocrystal.dim
    rot_mat,   \* RotatedMonocrystal.rot_mat (a 3x3 matrix or PyNone)
    atoms,     \* Model.atoms: the entries of the atom list
    min_max,   \* OrthorhombicPbcModel._min_max
    call,      \* the last call made and its arguments
    result,    \* what the last call returned or raised
    ncalls,    \* [made, filled]: calls made, calls that reached the box filler
    parts      \* independent generation runs kept side by side

vars == <<lattice, dim, rot_mat, atoms, min_max, call, result, ncalls, parts>>

----------------------------------------------------------------------------
(* Bounds of the model. *)

\* boxes are cubes of 1..MaxCells unit cells per axis
MaxCells == 3
\* generate_atoms calls made on one builder
MaxCalls == 2
\* length of the enumerated lattice names
MaxNameLen == 2

----------------------------------------------------------------------------
(* Python values. *)

PyStr(chars) == [type |-> "str", chars |-> chars]
PyTuple(items) == [type |-> "tuple", items |-> items]
PyInt(n) == [type |-> "int", val |-> n]
PyTrue == [type |-> "bool", val |-> 1]
PyFalse == [type |-> "bool", val |-> 0]
PyNone == [type |-> "NoneType"]

\* a is b, for the singletons True, False, None
PyIs(a, b) == a = b

\* a == b: bool is an int (True == 1, False == 0); None and str equal only
\* their own kind
PyEq(a, b) ==
    IF a.type \in {"bool", "int"} /\ b.type \in {"bool", "int"}
    THEN a.val = b.val
    ELSE a = b

\* x in (t1, ..., tn): identity or equality with some item
PyIn(x, items) == \E i \in 1..Len(items) : PyIs(x, items[i]) \/ PyEq(x, items[i])

\* len(v) of a str or a tuple
PyLen(v) == IF v.type = "str" THEN Len(v.chars) ELSE Len(v.items)

\* v[i], zero-based: a character of a str, an item of a tuple
PyIndex(v, i) ==
    IF v.type = "str" THEN PyStr(<<v.chars[i + 1]>>) ELSE v.items[i + 1]

----------------------------------------------------------------------------
(* Vectors and matrices (numpy). *)

Axes == 1..3

\* dot(v, M) of a row vector and a 3x3 matrix
VecMat(v, M) ==
    [k \in Axes |-> v[1] * M[1][k] + v[2] * M[2][k] + v[3] * M[3][k]]

\* dot(A, B) of two 3x3 matrices
MatMul(A, B) ==
    [i \in Axes |-> [k \in Axes |->
        A[i][1] * B[1][k] + A[i][2] * B[2][k] + A[i][3] * B[3][k]]]

\* rotation by 90 degrees about z, an exact rotation matrix
RotZ90 == <<<<0, 1, 0>>, <<-1, 0, 0>>, <<0, 0, 1>>>>

\* the rotation matrices a builder is constructed with
RotMats == {PyNone, RotZ90}

----------------------------------------------------------------------------
(* latt: unit cells and nodes. *)

\* latt.UnitCell and its specializations; M_1 maps eighths to 1e-7 A
UnitCell(system, a, b, c) ==
    [system |-> system, a |-> a, b |-> b, c |-> c,
     M_1 |-> <<<<a \div 8, 0, 0>>, <<0, b \div 8, 0>>, <<0, 0, c \div 8>>>>]

CubicUnitCell(a) == UnitCell("cubic", a, a, a)
OrthorhombicUnitCell(a, b, c) == UnitCell("orthorhombic", a, b, c)
TetragonalUnitCell(a, c) == UnitCell("tetragonal", a, a, c)

\* UnitCell.rotate(rot_mat): the basis vectors are rotated, the transform
\* recomputed; a second call compounds
rotate(unit_cell, rot) == [unit_cell EXCEPT !.M_1 = MatMul(unit_cell.M_1, rot)]

\* latt.Node(pos, atoms): each (symbol, x, y, z) becomes an AtomInNode
Node(pos, node_atoms) ==
    [pos |-> pos,
     atoms_in_node |-> [m \in 1..Len(node_atoms) |->
        [name |-> node_atoms[m][1],
         pos |-> <<node_atoms[m][2], node_atoms[m][3], node_atoms[m][4]>>]]]

\* graingen.CrystalLattice(cell, nodes)
CrystalLattice(cell, nodes) == [unit_cell |-> cell, nodes |-> nodes]

\* graingen's node tables, in eighths
simple_nodes == << <<0, 0, 0>> >>
fcc_nodes == << <<0, 0, 0>>, <<4, 4, 0>>, <<4, 0, 4>>, <<0, 4, 4>> >>
bcc_nodes == << <<0, 0, 0>>, <<4, 4, 4>> >>

\* generate_polytype(a, h, polytype): a hexagonal cell of len(polytype)
\* layers and one node per letter of the stacking sequence, at increasing
\* layer height; the in-plane offset is the letter's
generate_polytype(a, h, polytype) ==
    [cell |-> UnitCell("hexagonal", a, a, h * Len(polytype.chars)),
     nodes |-> [n \in 1..Len(polytype.chars) |-> <<polytype.chars[n], n - 1>>]]

----------------------------------------------------------------------------
(* The lattice catalog.  make_hcp_lattice is left out: the lookup never     *)
(* calls it and its offsets (0.866) are no fractions of the cell in         *)
(* eighths.                                                                 *)

AssertionError == [raised |-> "AssertionError"]

get_diamond_node_pos ==
    LET both(i) == << fcc_nodes[i],
                      <<fcc_nodes[i][1] + 2, fcc_nodes[i][2] + 2, fcc_nodes[i][3] + 2>> >>
    IN  both(1) \o both(2) \o both(3) \o both(4)

make_lattice(cell, node_pos, node_atoms) ==
    CrystalLattice(cell, [i \in 1..Len(node_pos) |-> Node(node_pos[i], node_atoms)])

make_simple_cubic_lattice(symbol, a) ==
    CrystalLattice(CubicUnitCell(a), << Node(<<0, 0, 0>>, << <<symbol, 0, 0, 0>> >>) >>)

make_fcc_lattice(symbol, a) ==
    make_lattice(CubicUnitCell(a), fcc_nodes, << <<symbol, 0, 0, 0>> >>)

make_bcc_lattice(symbol, a) ==
    make_lattice(CubicUnitCell(a), bcc_nodes, << <<symbol, 0, 0, 0>> >>)

make_zincblende_lattice(symbols, a) ==
    IF PyLen(symbols) # 2 THEN AssertionError
    ELSE make_lattice(CubicUnitCell(a), fcc_nodes,
            << <<PyIndex(symbols, 0), 0, 0, 0>>,
               <<PyIndex(symbols, 1), 2, 2, 2>> >>)

make_zincblende2_lattice(symbols, a) ==
    IF PyLen(symbols) # 2 THEN AssertionError
    ELSE make_lattice(CubicUnitCell(a), fcc_nodes,
            << <<PyIndex(symbols, 0), 0, 0, 0>>,
               <<PyIndex(symbols, 1), 2, 6, 6>> >>)

make_kesterite_structure(symbols, a, b, c) ==
    IF PyLen(symbols) # 4 THEN AssertionError
    ELSE make_lattice(OrthorhombicUnitCell(a, b, c), bcc_nodes,
            << <<PyIndex(symbols, 0), 0, 0, 0>>,
               <<PyIndex(symbols, 1), 4, 4, 0>>,
               <<PyIndex(symbols, 0), 0, 4, 2>>,
               <<PyIndex(symbols, 2), 4, 0, 2>>,
               <<PyIndex(symbols, 1), 0, 0, 4>>,
               <<PyIndex(symbols, 0), 4, 4, 4>>,
               <<PyIndex(symbols, 2), 0, 4, 6>>,
               <<PyIndex(symbols, 0), 4, 0, 6>>,
               <<PyIndex(symbols, 3), 2, 2, 1>>,
               <<PyIndex(symbols, 3), 6, 6, 1>>,
               <<PyIndex(symbols, 3), 2, 6, 3>>,
               <<PyIndex(symbols, 3), 6, 2, 3>>,
               <<PyIndex(symbols, 3), 2, 2, 5>>,
               <<PyIndex(symbols, 3), 6, 6, 5>>,
               <<PyIndex(symbols, 3), 2, 6, 7>>,
               <<PyIndex(symbols, 3), 6, 2, 7>> >>)

make_stannite_structure(symbols, a, b, c) ==
    IF PyLen(symbols) # 4 THEN AssertionError
    ELSE make_lattice(OrthorhombicUnitCell(a, b, c), bcc_nodes,
            << <<PyIndex(symbols, 0), 0, 0, 0>>,
               <<PyIndex(symbols, 0), 4, 4, 0>>,
               <<PyIndex(symbols, 1), 0, 4, 2>>,
               <<PyIndex(symbols, 2), 4, 0, 2>>,
               <<PyIndex(symbols, 0), 0, 0, 4>>,
               <<PyIndex(symbols, 0), 4, 4, 4>>,
               <<PyIndex(symbols, 2), 0, 4, 6>>,
               <<PyIndex(symbols, 1), 4, 0, 6>>,
               <<PyIndex(symbols, 3), 2, 2, 1>>,
               <<PyIndex(symbols, 3), 6, 6, 1>>,
               <<PyIndex(symbols, 3), 2, 6, 3>>,
               <<PyIndex(symbols, 3), 6, 2, 3>>,
               <<PyIndex(symbols, 3), 2, 2, 5>>,
               <<PyIndex(symbols, 3), 6, 6, 5>>,
               <<PyIndex(symbols, 3), 2, 6, 7>>,
               <<PyIndex(symbols, 3), 6, 2, 7>> >>)

\* The offset 0.75 / len(polytype) along z is kept as the pair <<3, 4 * len>>
\* (numerator, denominator); the polytype lattices are not filled here.
make_sic_polytype_lattice(symbols, a, h, polytype) ==
    IF PyLen(symbols) # 2 THEN AssertionError
    ELSE LET p == generate_polytype(a, h, polytype)
         IN  make_lattice(p.cell, p.nodes,
                << <<PyIndex(symbols, 0), 0, 0, <<0, 1>> >>,
                   <<PyIndex(symbols, 1), 0, 0, <<3, 4 * PyLen(polytype)>> >> >>)

make_c_hexagonal_lattice(symbol, a, h, polytype) ==
    LET p == generate_polytype(a, h, polytype)
    IN  make_lattice(p.cell, p.nodes,
            << <<PyIndex(symbol, 0), 0, 0, <<0, 1>> >>,
               <<PyIndex(symbol, 0), 0, 0, <<3, 4 * PyLen(polytype)>> >> >>)

make_mg_hexagonal_lattice(symbol, a, h, polytype) ==
    LET p == generate_polytype(a, h, polytype)
    IN  make_lattice(p.cell, p.nodes,
            << <<PyIndex(symbol, 0), 0, 0, <<0, 1>> >>,
               <<PyIndex(symbol, 0), 0, 0, <<3, 4 * PyLen(polytype)>> >> >>)

make_diamond_lattice(symbol, a) ==
    make_lattice(CubicUnitCell(a), get_diamond_node_pos, << <<symbol, 0, 0, 0>> >>)

make_nbo_lattice(symbols, a) ==
    IF PyLen(symbols) # 2 THEN AssertionError
    ELSE make_lattice(CubicUnitCell(a), fcc_nodes,
            << <<PyIndex(symbols, 0), 0, 0, 0>>,
               <<PyIndex(symbols, 1), 4, 4, 4>> >>)

make_crnb_lattice(symbols, a) ==
    IF PyLen(symbols) # 2 THEN AssertionError
    ELSE make_lattice(CubicUnitCell(a), fcc_nodes,
            << <<PyIndex(symbols, 1), 1, 1, 1>>,
               <<PyIndex(symbols, 1), 7, 7, 7>>,
               <<PyIndex(symbols, 0), 4, 4, 4>>,
               <<PyIndex(symbols, 0), 4, 2, 2>>,
               <<PyIndex(symbols, 0), 2, 4, 2>>,
               <<PyIndex(symbols, 0), 2, 2, 4>> >>)

make_nacl_lattice(symbols, a) ==
    IF PyLen(symbols) # 2 THEN AssertionError
    ELSE make_lattice(CubicUnitCell(a), fcc_nodes,
            << <<PyIndex(symbols, 0), 0, 0, 0>>,
               <<PyIndex(symbols, 1), 4, 4, 4>> >>)

make_niti_lattice(symbols, a) ==
    IF PyLen(symbols) # 2 THEN AssertionError
    ELSE make_lattice(CubicUnitCell(a), simple_nodes,
            << <<PyIndex(symbols, 0), 0, 0, 0>>,
               <<PyIndex(symbols, 1), 4, 4, 4>> >>)

make_tial_lattice(symbols, a, b, c) ==
    IF PyLen(symbols) # 2 THEN AssertionError
    ELSE make_lattice(OrthorhombicUnitCell(a, b, c), bcc_nodes,
            << <<PyIndex(symbols, 0), 0, 0, 0>>,
               <<PyIndex(symbols, 1), 4, 0, 4>> >>)

make_bct_lattice(symbol, a, c) ==
    make_lattice(TetragonalUnitCell(a, c), bcc_nodes, << <<symbol, 0, 0, 0>> >>)

----------------------------------------------------------------------------
(* str methods. *)

UpperCase == <<"A", "B", "C", "D", "E", "F", "G", "H", "I", "J", "K", "L", "M",
               "N", "O", "P", "Q", "R", "S", "T", "U", "V", "W", "X", "Y", "Z">>
LowerCase == <<"a", "b", "c", "d", "e", "f", "g", "h", "i", "j", "k", "l", "m",
               "n", "o", "p", "q", "r", "s", "t", "u", "v", "w", "x", "y", "z">>

\* str.lower(): each upper-case letter becomes its lower-case letter
lower(chars) ==
    [i \in 1..Len(chars) |->
        IF \E u \in 1..Len(UpperCase) : UpperCase[u] = chars[i]
        THEN LowerCase[CHOOSE u \in 1..Len(UpperCase) : UpperCase[u] = chars[i]]
        ELSE chars[i]]

\* str.endswith(suffix), str.startswith(prefix)
endswith(chars, suffix) ==
    /\ Len(chars) >= Len(suffix)
    /\ SubSeq(chars, Len(chars) - Len(suffix) + 1, Len(chars)) = suffix

startswith(chars, prefix) ==
    /\ Len(chars) >= Len(prefix)
    /\ SubSeq(chars, 1, Len(prefix)) = prefix

----------------------------------------------------------------------------
(* Lattice lookup. *)

ValueError(msg) == [raised |-> "ValueError", msg |-> PyStr(msg)]

\* The lattice comes from a file through gemmi: outside the model, kept as the
\* file it names.
make_lattice_from_cif(filename) == [from_cif |-> filename]

\* the error raised with the identifier as it was passed, before lower()
unknown_lattice_as_requested(requested, n) ==
    ValueError(<<"U", "n", "k", "n", "o", "w", "n", " ", "l", "a", "t", "t", "i", "c", "e", ":", " ">> \o requested)

\* raise ValueError("Unknown lattice: %s" % name), name being the lower-cased
\* identifier by then; `requested` is the identifier as it was passed
unknown_lattice(requested, n) ==
    ValueError(<<"U", "n", "k", "n", "o", "w", "n", " ", "l", "a", "t", "t", "i", "c", "e", ":", " ">> \o n)

get_named_lattice(name) ==
    IF endswith(name.chars, <<".", "c", "i", "f">>) THEN make_lattice_from_cif(name)
    ELSE LET n == lower(name.chars) IN
    IF n = <<"c", "u">>
        THEN make_fcc_lattice(PyStr(<<"C", "u">>), 36150000)
    ELSE IF n = <<"a", "l">>
        THEN make_fcc_lattice(PyStr(<<"A", "l">>), 40410000)
    ELSE IF n = <<"a", "g">>
        THEN make_fcc_lattice(PyStr(<<"A", "g">>), 40900000)
    ELSE IF n = <<"n", "i">>
        THEN make_fcc_lattice(PyStr(<<"N", "i">>), 35200000)
    ELSE IF n = <<"p", "t">>
        THEN make_fcc_lattice(PyStr(<<"P", "t">>), 39200000)
    ELSE IF n = <<"f", "e">>
        THEN make_bcc_lattice(PyStr(<<"F", "e">>), 28700000)
    ELSE IF n = <<"n", "b">>
        THEN make_bcc_lattice(PyStr(<<"N", "b">>), 33080000)
    ELSE IF n = <<"w">>
        THEN make_bcc_lattice(PyStr(<<"W">>), 31650000)
    ELSE IF n = <<"p", "o">>
        THEN make_simple_cubic_lattice(PyStr(<<"P", "o">>), 33500000)
    ELSE IF n = <<"n", "a", "c", "l">>
        THEN make_nacl_lattice(PyTuple(<<PyStr(<<"N", "a">>), PyStr(<<"C", "l">>)>>), 56400000)
    ELSE IF n = <<"n", "i", "t", "i">>
        THEN make_niti_lattice(PyTuple(<<PyStr(<<"N", "i">>), PyStr(<<"T", "i">>)>>), 30080000)
    ELSE IF n = <<"c", "d", "t", "e">>
        THEN make_zincblende2_lattice(PyTuple(<<PyStr(<<"C", "d">>), PyStr(<<"T", "e">>)>>), 43210000)
    ELSE IF n = <<"c", "u", "z", "n", "g", "e", "s">>
        THEN make_kesterite_structure(PyTuple(<<PyStr(<<"C", "u">>), PyStr(<<"Z", "n">>), PyStr(<<"G", "e">>), PyStr(<<"S">>)>>), 53580000, 53580000, 106410000)
    ELSE IF n = <<"c", "u", "z", "n", "s", "n", "s", "e">>
        THEN make_stannite_structure(PyTuple(<<PyStr(<<"C", "u">>), PyStr(<<"Z", "n">>), PyStr(<<"G", "e">>), PyStr(<<"S">>)>>), 53580000, 53580000, 106410000)
    ELSE IF n = <<"g", "r", "a", "p", "h", "i", "n", "e">>
        THEN make_c_hexagonal_lattice(PyStr(<<"C">>), 30700000, 25200000, PyStr(<<"A", "B", "A", "B", "C">>))
    ELSE IF n = <<"m", "g">>
        THEN make_mg_hexagonal_lattice(PyStr(<<"M", "g">>), 31830000, 20600000, PyStr(<<"A", "B", "A", "B">>))
    ELSE IF n = <<"c", "r", "n", "b">>
        THEN make_crnb_lattice(PyTuple(<<PyStr(<<"C", "r">>), PyStr(<<"N", "b">>)>>), 65000000)
    ELSE IF n = <<"n", "b", "o">>
        THEN make_nbo_lattice(PyTuple(<<PyStr(<<"N", "b">>), PyStr(<<"O">>)>>), 33200000)
    ELSE IF n = <<"t", "i", "a", "l">>
        THEN make_tial_lattice(PyTuple(<<PyStr(<<"T", "i">>), PyStr(<<"A", "l">>)>>), 40000000, 40000000, 40000000)
    ELSE IF n = <<"s", "i", "c">>
        THEN make_zincblende_lattice(PyTuple(<<PyStr(<<"S", "i">>), PyStr(<<"C">>)>>), 43210368)
    ELSE IF n = <<"s", "i">>
        THEN make_diamond_lattice(PyStr(<<"S", "i">>), 54300000)
    ELSE IF n = <<"d", "i", "a", "m", "o", "n", "d">>
        THEN make_diamond_lattice(PyStr(<<"C">>), 35670000)
    ELSE IF startswith(n, <<"s", "i", "c", ":">>)
        THEN make_sic_polytype_lattice(PyTuple(<<PyStr(<<"S", "i">>), PyStr(<<"C">>)>>), 30730000, 25200000, PyStr(SubSeq(n, 5, Len(n))))
    ELSE IF n = <<"s", "n">>
        THEN make_bct_lattice(PyStr(<<"S", "n">>), 58300000, 31800000)
    ELSE unknown_lattice(name.chars, n)

----------------------------------------------------------------------------
(* The box filler, OrthorhombicPbcModel. *)

\* eps = 0.001 A
eps == 10000

Max(S) == CHOOSE x \in S : \A y \in S : y <= x
Min(S) == CHOOSE x \in S : \A y \in S : x <= y

\* list(zip(vmin, vmax))
zip(vmin, vmax) == [k \in Axes |-> <<vmin[k], vmax[k]>>]

\* OrthorhombicPbcModel.get_vertices: the corners of the box
get_vertices(mm) ==
    { <<mm[1][i], mm[2][j], mm[3][k]>> : i \in 1..2, j \in 1..2, k \in 1..2 }

\* floor(x / d) for d > 0
FloorDiv(x, d) == x \div d

\* FreshModel.compute_scope: the replicas of the unit cell that may place an
\* atom inside the box.  The corners of the box are taken to the cell's own
\* axes (the transform is a rotation of an orthogonal cell, so row i of M_1
\* divided by the cell length is the direction of axis i), the range of
\* whole cells they span is padded by one cell in every direction.
compute_scope(unit_cell, mm) ==
    LET len == <<unit_cell.a, unit_cell.b, unit_cell.c>>
        dir(i, k) == unit_cell.M_1[i][k] \div (len[i] \div 8)
        along(i, v) == v[1] * dir(i, 1) + v[2] * dir(i, 2) + v[3] * dir(i, 3)
        cells(i) == { FloorDiv(along(i, v), len[i]) : v \in get_vertices(mm) }
        range(i) == (Min(cells(i)) - 1) .. (Max(cells(i)) + 1)
    IN  range(1) \X range(2) \X range(3)

\* FreshModel.get_all_nodes: each node of each replica in scope, as the pair
\* <<replica, index of the node>>
get_all_nodes(lat, scope) == scope \X (1..Len(lat.nodes))

\* the fractional position get_all_nodes yields with a node: replica offset
\* + node position, in eighths
abs_pos(lat, nd) == [k \in Axes |-> 8 * nd[1][k] + lat.nodes[nd[2]].pos[k]]

\* the inclusion test with both faces closed
InBoxClosed(vmin, xyz, vmax) ==
    \A k \in Axes : vmin[k] <= xyz[k] /\ xyz[k] <= vmax[k]

\* (vmin < xyz).all() and (xyz <= vmax).all()
InBox(vmin, xyz, vmax) ==
    \A k \in Axes : vmin[k] < xyz[k] /\ xyz[k] <= vmax[k]

\* mdprim.Atom(name, xyz) as an entry of the atom list; src tells the entries
\* of one fill apart (replica, node, atom in node), as their places in the
\* list do
Atom(name, xyz, src) == [name |-> name, pos |-> xyz, src |-> src]

\* OrthorhombicPbcModel._do_gen_atoms: the entries appended to self.atoms
do_gen_atoms(lat, vmin, vmax) ==
    LET nodes == get_all_nodes(lat, compute_scope(lat.unit_cell, zip(vmin, vmax)))
        natoms == Len(lat.nodes[1].atoms_in_node)
        M == lat.unit_cell.M_1
        xyz(nd, m) ==
            LET p == abs_pos(lat, nd)
                o == lat.nodes[nd[2]].atoms_in_node[m].pos
            IN  VecMat(<<p[1] + o[1], p[2] + o[2], p[3] + o[3]>>, M)
        kept == { c \in nodes \X (1..natoms) : InBox(vmin, xyz(c[1], c[2]), vmax) }
    IN  { Atom(lat.nodes[c[1][2]].atoms_in_node[c[2]].name, xyz(c[1], c[2]),
               <<c[1][1], c[1][2], c[2]>>) : c \in kept }

----------------------------------------------------------------------------
(* The oriented monocrystal builder, RotatedMonocrystal. *)

\* the half boxes split at -eps below the interface instead of at eps
get_box_to_fill_split_below(self_dim, upper, z_margin) ==
    LET vmin == [k \in Axes |-> -(self_dim[k] \div 2) + eps]
        vmax == [k \in Axes |-> self_dim[k] \div 2 + eps]
    IN  IF ~PyIn(upper, <<PyTrue, PyFalse, PyNone>>) THEN AssertionError
        ELSE IF PyIs(upper, PyTrue)
             THEN [vmin |-> [vmin EXCEPT ![3] = eps],
                   vmax |-> IF z_margin # 0
                            THEN [vmax EXCEPT ![3] = @ - z_margin \div 2] ELSE vmax]
        ELSE IF PyIs(upper, PyFalse)
             THEN [vmin |-> IF z_margin # 0
                            THEN [vmin EXCEPT ![3] = @ + z_margin \div 2] ELSE vmin,
                   vmax |-> [vmax EXCEPT ![3] = -eps]]
        ELSE [vmin |-> vmin, vmax |-> vmax]

\* the upper face offset by -eps instead of +eps
get_box_to_fill_eps_sign(self_dim, upper, z_margin) ==
    LET vmin == [k \in Axes |-> -(self_dim[k] \div 2) + eps]
        vmax == [k \in Axes |-> self_dim[k] \div 2 - eps]
    IN  IF ~PyIn(upper, <<PyTrue, PyFalse, PyNone>>) THEN AssertionError
        ELSE IF PyIs(upper, PyTrue)
             THEN [vmin |-> [vmin EXCEPT ![3] = eps],
                   vmax |-> IF z_margin # 0
                            THEN [vmax EXCEPT ![3] = @ - z_margin \div 2] ELSE vmax]
        ELSE IF PyIs(upper, PyFalse)
             THEN [vmin |-> IF z_margin # 0
                            THEN [vmin EXCEPT ![3] = @ + z_margin \div 2] ELSE vmin,
                   vmax |-> [vmax EXCEPT ![3] = eps]]
        ELSE [vmin |-> vmin, vmax |-> vmax]

\* the lower half grown by the margin instead of shrunk
get_box_to_fill_lower_grown(self_dim, upper, z_margin) ==
    LET vmin == [k \in Axes |-> -(self_dim[k] \div 2) + eps]
        vmax == [k \in Axes |-> self_dim[k] \div 2 + eps]
    IN  IF ~PyIn(upper, <<PyTrue, PyFalse, PyNone>>) THEN AssertionError
        ELSE IF PyIs(upper, PyTrue)
             THEN [vmin |-> [vmin EXCEPT ![3] = eps],
                   vmax |-> IF z_margin # 0
                            THEN [vmax EXCEPT ![3] = @ - z_margin \div 2] ELSE vmax]
        ELSE IF PyIs(upper, PyFalse)
             THEN [vmin |-> IF z_margin # 0
                            THEN [vmin EXCEPT ![3] = @ - z_margin \div 2] ELSE vmin,
                   vmax |-> [vmax EXCEPT ![3] = eps]]
        ELSE [vmin |-> vmin, vmax |-> vmax]

\* RotatedMonocrystal.get_box_to_fill; self_dim is self.dim (the parameter dim
\* is not read).  The margins of the model are even, so z_margin / 2 is exact.
get_box_to_fill(self_dim, upper, z_margin) ==
    LET vmin == [k \in Axes |-> -(self_dim[k] \div 2) + eps]
        vmax == [k \in Axes |-> self_dim[k] \div 2 + eps]
    IN  IF ~PyIn(upper, <<PyTrue, PyFalse, PyNone>>) THEN AssertionError
        ELSE IF PyIs(upper, PyTrue)
             THEN [vmin |-> [vmin EXCEPT ![3] = eps],
                   vmax |-> IF z_margin # 0
                            THEN [vmax EXCEPT ![3] = @ - z_margin \div 2] ELSE vmax]
        ELSE IF PyIs(upper, PyFalse)
             THEN [vmin |-> IF z_margin # 0
                            THEN [vmin EXCEPT ![3] = @ + z_margin \div 2] ELSE vmin,
                   vmax |-> [vmax EXCEPT ![3] = eps]]
        ELSE [vmin |-> vmin, vmax |-> vmax]

\* the rotation step skipped
rotate_if_given_never(unit_cell, rot) == unit_cell

\* if self.rot_mat is not None: self.unit_cell.rotate(self.rot_mat)
rotate_if_given(unit_cell, rot) ==
    IF rot # PyNone THEN rotate(unit_cell, rot) ELSE unit_cell

\* RotatedMonocrystal.generate_atoms on a builder self = [lattice, dim,
\* rot_mat, atoms, min_max]: the builder afterwards and what the call
\* returned or raised.  The atom list is cleared before the bounds are
\* computed, so a failed call leaves it empty.
generate_atoms(self, upper, z_margin) ==
    LET box == get_box_to_fill(self.dim, upper, z_margin)
    IN  IF box = AssertionError
        THEN [self |-> [self EXCEPT !.atoms = {}], result |-> AssertionError]
        ELSE LET lat == [self.lattice EXCEPT
                            !.unit_cell = rotate_if_given(@, self.rot_mat)]
             IN  [self |-> [self EXCEPT
                              !.lattice = lat,
                              !.min_max = zip(box.vmin, box.vmax),
                              !.atoms = do_gen_atoms(lat, box.vmin, box.vmax)],
                  result |-> [returned |-> "self.atoms"]]

\* RotatedMonocrystal(lattice, dim, rot_mat): a builder with no atoms; the
\* unit cell is the lattice's own
RotatedMonocrystal(lat, dimensions, rot) ==
    [lattice |-> lat, dim |-> dimensions, rot_mat |-> rot,
     atoms |-> {}, min_max |-> <<>>]

----------------------------------------------------------------------------
(* Inputs. *)

\* the catalog lattices the boxes are filled with
BuilderNames ==
    { <<"c", "u">>, <<"n", "a", "c", "l">>, <<"c", "d", "t", "e">>,
      <<"f", "e">>, <<"c", "r", "n", "b">> }

\* the values passed as upper: the three recognized ones, 1, 0 and a string
UpperValues == {PyTrue, PyFalse, PyNone, PyInt(1), PyInt(0), PyStr(<<"u", "p">>)}

\* the inter-slab margins: none and 2 A
ZMargins == {0, 20000000}

\* the (upper, z_margin) pairs generate_atoms is called with: a margin is
\* given with the recognized values of upper only
CallArgs ==
    { a \in UpperValues \X ZMargins :
        a[2] = 0 \/ a[1] \in {PyTrue, PyFalse, PyNone} }

\* a cube of n unit cells per axis
CubeOf(lat, n) == [k \in Axes |-> n * lat.unit_cell.a]

NoCall == [op |-> "none"]
NoResult == [returned |-> "none"]
Unused == <<>>

----------------------------------------------------------------------------
(* Spec: one builder, generate_atoms called on it repeatedly. *)

Init ==
    /\ \E nm \in BuilderNames, n \in 1..MaxCells :
          /\ lattice = get_named_lattice(PyStr(nm))
          /\ dim = CubeOf(lattice, n)
    /\ rot_mat \in RotMats
    /\ atoms = {}
    /\ min_max = <<>>
    /\ call = NoCall
    /\ result = NoResult
    /\ ncalls = [made |-> 0, filled |-> 0]
    /\ parts = Unused

GenerateAtoms(upper, z_margin) ==
    /\ ncalls.made < MaxCalls
    /\ LET self == [lattice |-> lattice, dim |-> dim, rot_mat |-> rot_mat,
                    atoms |-> atoms, min_max |-> min_max]
       IN  \E r \in {generate_atoms(self, upper, z_margin)} :
           /\ lattice' = r.self.lattice
           /\ atoms' = r.self.atoms
           /\ min_max' = r.self.min_max
           /\ result' = r.result
           /\ ncalls' = [made |-> ncalls.made + 1,
                         filled |-> ncalls.filled +
                                    (IF r.result = AssertionError THEN 0 ELSE 1)]
    /\ call' = [op |-> "generate_atoms", upper |-> upper, z_margin |-> z_margin]
    /\ UNCHANGED <<dim, rot_mat, parts>>

Next == \E a \in CallArgs : GenerateAtoms(a[1], a[2])

Spec == Init /\ [][Next]_vars

----------------------------------------------------------------------------
(* SpecHalves: the two halves of a bicrystal and the full box, each         *)
(* generated by a builder of its own over a copy of the lattice, as mono()  *)
(* builds it: RotatedMonocrystal(deepcopy(lattice), dim, rot_mat).          *)

NotRun == [run |-> FALSE]

HalfSlots == {"upper", "lower", "full"}

UpperOf(slot) ==
    IF slot = "upper" THEN PyTrue ELSE IF slot = "lower" THEN PyFalse ELSE PyNone

InitHalves ==
    /\ \E nm \in BuilderNames, n \in 1..MaxCells :
          /\ lattice = get_named_lattice(PyStr(nm))
          /\ dim = CubeOf(lattice, n)
    /\ rot_mat \in RotMats
    /\ atoms = {}
    /\ min_max = <<>>
    /\ call = NoCall
    /\ result = NoResult
    /\ ncalls = [made |-> 0, filled |-> 0]
    /\ parts = [slot \in HalfSlots |-> NotRun]

GenerateHalf(slot) ==
    /\ parts[slot] = NotRun
    /\ \E r \in {generate_atoms(RotatedMonocrystal(lattice, dim, rot_mat),
                                  UpperOf(slot), 0)} :
           /\ atoms' = r.self.atoms
           /\ min_max' = r.self.min_max
           /\ result' = r.result
           /\ parts' = [parts EXCEPT ![slot] =
                          [run |-> TRUE, atoms |-> r.self.atoms,
                           min_max |-> r.self.min_max]]
    /\ call' = [op |-> "generate_atoms", upper |-> UpperOf(slot), z_margin |-> 0]
    /\ ncalls' = [made |-> ncalls.made + 1, filled |-> ncalls.filled + 1]
    /\ UNCHANGED <<lattice, dim, rot_mat>>

NextHalves == \E slot \in HalfSlots : GenerateHalf(slot)

SpecHalves == InitHalves /\ [][NextHalves]_vars

----------------------------------------------------------------------------
(* SpecFill: one lattice in one orientation, a box cut in two along one     *)
(* axis; each of the boxes A = (vmin, vmid], B = (vmid, vmax] and the union *)
(* U = (vmin, vmax] is filled by _do_gen_atoms on a model with no atoms.    *)

FillSlots == {"A", "B", "U"}

\* the planes the box is cut at: through lattice sites (0 and a / 2) and
\* between them (-a / 4)
CutsOf(lat) == {0, lat.unit_cell.a \div 2, -(lat.unit_cell.a \div 4)}

\* the bounds of a slot's box under a cut
BoxOf(cut, slot) ==
    [vmin |-> IF slot = "B" THEN [cut.vmin EXCEPT ![cut.axis] = cut.vmid]
              ELSE cut.vmin,
     vmax |-> IF slot = "A" THEN [cut.vmax EXCEPT ![cut.axis] = cut.vmid]
              ELSE cut.vmax]

InitFill ==
    /\ \E nm \in BuilderNames, n \in 1..MaxCells, r \in RotMats :
          /\ lattice = [get_named_lattice(PyStr(nm)) EXCEPT
                            !.unit_cell = rotate_if_given(@, r)]
          /\ dim = CubeOf(lattice, n)
    /\ rot_mat = PyNone
    /\ atoms = {}
    /\ min_max = <<>>
    /\ call = NoCall
    /\ result = NoResult
    /\ ncalls = [made |-> 0, filled |-> 0]
    /\ \E axis \in Axes, vmid \in CutsOf(lattice), closed \in BOOLEAN :
          LET vmin == [k \in Axes |-> -(dim[k] \div 2) + eps]
              vmax == [k \in Axes |-> dim[k] \div 2 +
                          (IF closed /\ k = axis THEN 0 ELSE eps)]
          IN  /\ vmin[axis] < vmid
              /\ vmid < vmax[axis]
              /\ parts = [cut |-> [axis |-> axis, vmin |-> vmin,
                                   vmid |-> vmid, vmax |-> vmax],
                          A |-> NotRun, B |-> NotRun, U |-> NotRun]

DoGenAtoms(slot) ==
    /\ parts[slot] = NotRun
    /\ LET box == BoxOf(parts.cut, slot)
       IN  \E made \in {do_gen_atoms(lattice, box.vmin, box.vmax)} :
           /\ atoms' = made
           /\ min_max' = zip(box.vmin, box.vmax)
           /\ parts' = [parts EXCEPT ![slot] =
                          [run |-> TRUE, atoms |-> made,
                           min_max |-> zip(box.vmin, box.vmax)]]
    /\ call' = [op |-> "_do_gen_atoms", slot |-> slot]
    /\ result' = PyNone
    /\ ncalls' = [made |-> ncalls.made + 1, filled |-> ncalls.filled + 1]
    /\ UNCHANGED <<lattice, dim, rot_mat>>

NextFill == \E slot \in FillSlots : DoGenAtoms(slot)

SpecFill == InitFill /\ [][NextFill]_vars

----------------------------------------------------------------------------
(* SpecCatalog: the lookup and the factories called with names and species  *)
(* arguments.                                                               *)

CatalogNames ==
    { <<"c", "u">>,
      <<"a", "l">>,
      <<"a", "g">>,
      <<"n", "i">>,
      <<"p", "t">>,
      <<"f", "e">>,
      <<"n", "b">>,
      <<"w">>,
      <<"p", "o">>,
      <<"n", "a", "c", "l">>,
      <<"n", "i", "t", "i">>,
      <<"c", "d", "t", "e">>,
      <<"c", "u", "z", "n", "g", "e", "s">>,
      <<"c", "u", "z", "n", "s", "n", "s", "e">>,
      <<"g", "r", "a", "p", "h", "i", "n", "e">>,
      <<"m", "g">>,
      <<"c", "r", "n", "b">>,
      <<"n", "b", "o">>,
      <<"t", "i", "a", "l">>,
      <<"s", "i", "c">>,
      <<"s", "i">>,
      <<"d", "i", "a", "m", "o", "n", "d">>,
      <<"s", "n">> }

\* names passed to the lookup besides the catalog's and the enumerated ones
ListedNames ==
    { <<"C", "u">>,
      <<"N", "a", "C", "l">>,
      <<"M", "g">>,
      <<"S", "i", "C">>,
      <<"s", "i", "c", ":", "a", "b">>,
      <<"S", "I", "C", ":", "A", "B">>,
      <<"s", "i", "c", ":", "a", "b", "c", "a", "c", "b">>,
      <<"X", "y", "z">>,
      <<"c", "u", ".", "c", "i", "f">>,
      <<"C", "U", ".", "C", "I", "F">>,
      <<"F", "e", "e">>,
      <<"d", "i", "a", "m", "o", "n", "d", "s">>,
      <<"N", "a", "C", "L", "2">> }

NameAlphabet == {"c", "u", "C", "U", "w", "W", "x"}

EnumeratedNames == UNION { [1..n -> NameAlphabet] : n \in 0..MaxNameLen }

LookupNames == { PyStr(n) : n \in CatalogNames \cup ListedNames \cup EnumeratedNames }

\* the factories that assert the number of species
Factories2 == {"make_zincblende_lattice", "make_zincblende2_lattice",
               "make_nacl_lattice", "make_niti_lattice", "make_nbo_lattice",
               "make_crnb_lattice", "make_tial_lattice",
               "make_sic_polytype_lattice"}
Factories4 == {"make_kesterite_structure", "make_stannite_structure"}

ElementSymbols ==
    << PyStr(<<"C", "u">>), PyStr(<<"Z", "n">>), PyStr(<<"G", "e">>),
       PyStr(<<"S">>), PyStr(<<"N", "a">>) >>

\* species arguments: tuples of 0..5 symbols, and single symbols passed bare
SymbolArgs ==
    { PyTuple(SubSeq(ElementSymbols, 1, n)) : n \in 0..Len(ElementSymbols) }
    \cup { ElementSymbols[i] : i \in 1..Len(ElementSymbols) }
    \cup { PyStr(<<"C", "u", "Z", "n">>), PyStr(<<"S", "i", "C">>) }

\* the factory f called with the species argument and the catalog's
\* parameters
ApplyFactory(f, symbols) ==
    CASE f = "make_zincblende_lattice" -> make_zincblende_lattice(symbols, 43210368)
      [] f = "make_zincblende2_lattice" -> make_zincblende2_lattice(symbols, 43210000)
      [] f = "make_nacl_lattice" -> make_nacl_lattice(symbols, 56400000)
      [] f = "make_niti_lattice" -> make_niti_lattice(symbols, 30080000)
      [] f = "make_nbo_lattice" -> make_nbo_lattice(symbols, 33200000)
      [] f = "make_crnb_lattice" -> make_crnb_lattice(symbols, 65000000)
      [] f = "make_tial_lattice" ->
            make_tial_lattice(symbols, 40000000, 40000000, 40000000)
      [] f = "make_sic_polytype_lattice" ->
            make_sic_polytype_lattice(symbols, 30730000, 25200000,
                                      PyStr(<<"A", "B">>))
      [] f = "make_kesterite_structure" ->
            make_kesterite_structure(symbols, 53580000, 53580000, 106410000)
      [] f = "make_stannite_structure" ->
            make_stannite_structure(symbols, 53580000, 53580000, 106410000)

InitCatalog ==
    /\ lattice = Unused
    /\ dim = Unused
    /\ rot_mat = PyNone
    /\ atoms = {}
    /\ min_max = <<>>
    /\ call = NoCall
    /\ result = NoResult
    /\ ncalls = [made |-> 0, filled |-> 0]
    /\ parts = Unused

GetNamedLattice(name) ==
    /\ call' = [op |-> "get_named_lattice", name |-> name]
    /\ result' = get_named_lattice(name)
    /\ UNCHANGED <<lattice, dim, rot_mat, atoms, min_max, ncalls, parts>>

CallFactory(f, symbols) ==
    /\ call' = [op |-> f, symbols |-> symbols]
    /\ result' = ApplyFactory(f, symbols)
    /\ UNCHANGED <<lattice, dim, rot_mat, atoms, min_max, ncalls, parts>>

NextCatalog ==
    \/ \E name \in LookupNames : GetNamedLattice(name)
    \/ \E f \in Factories2 \cup Factories4, symbols \in SymbolArgs :
          CallFactory(f, symbols)

SpecCatalog == InitCatalog /\ [][NextCatalog]_vars

----------------------------------------------------------------------------
(* Properties. *)

\* the unit cell's transform as its factory built it
OriginalM_1(unit_cell) ==
    UnitCell(unit_cell.system, unit_cell.a, unit_cell.b, unit_cell.c).M_1

\* M rotated by rot k times
RECURSIVE RotatedTimes(_, _, _)
RotatedTimes(M, rot, k) ==
    IF k = 0 THEN M ELSE MatMul(RotatedTimes(M, rot, k - 1), rot)

\* unit cells per axis of the box
CellsPerAxis == dim[1] \div lattice.unit_cell.a

IsLattice(r) == "nodes" \in DOMAIN r

Raised(r) == "raised" \in DOMAIN r

AllRun(slots) == \A slot \in slots : parts[slot].run

\* C1: with the boxes A = (vmin, vmid], B = (vmid, vmax] and their union U
\* all filled from one lattice in one orientation, no entry is in both A and
\* B and the entries of A and B together are exactly the entries of U.
C1_AdjacentBoxesTile ==
    AllRun(FillSlots) =>
        /\ parts.A.atoms \cap parts.B.atoms = {}
        /\ parts.A.atoms \cup parts.B.atoms = parts.U.atoms

\* C1 happens: the three boxes are filled and a site lies exactly on the
\* shared face, in A only.
C1_Witness ==
    /\ AllRun(FillSlots)
    /\ \E e \in parts.A.atoms : e.pos[parts.cut.axis] = parts.cut.vmid
    /\ parts.B.atoms # {}

CountOf(sym) == Cardinality({ e \in atoms : e.name = sym })

\* the number of decoration entries of a species on one node
EntriesOf(lat, sym) ==
    Cardinality({ m \in 1..Len(lat.nodes[1].atoms_in_node) :
                    lat.nodes[1].atoms_in_node[m].name = sym })

SpeciesOf(lat) ==
    { lat.nodes[1].atoms_in_node[m].name : m \in 1..Len(lat.nodes[1].atoms_in_node) }

FullBoxUnrotated ==
    /\ call.op = "generate_atoms"
    /\ call.upper = PyNone
    /\ rot_mat = PyNone
    /\ lattice.unit_cell.system = "cubic"

\* C3: generate_atoms(upper=None) on an unrotated cubic lattice and a box of
\* N cells per axis returns N^3 * nodes * (entries of the species per node)
\* atoms of each species: 108 for Cu at N = 3, 4 Na and 4 Cl for NaCl at
\* N = 1.
C3_AtomCount ==
    FullBoxUnrotated =>
        /\ \A sym \in SpeciesOf(lattice) :
              CountOf(sym) = CellsPerAxis * CellsPerAxis * CellsPerAxis
                                * Len(lattice.nodes) * EntriesOf(lattice, sym)
        /\ (lattice = make_fcc_lattice(PyStr(<<"C", "u">>), 36150000)
                /\ dim = <<108450000, 108450000, 108450000>>)
              => Cardinality(atoms) = 108
        /\ (lattice = make_nacl_lattice(
                          PyTuple(<<PyStr(<<"N", "a">>), PyStr(<<"C", "l">>)>>), 56400000)
                /\ dim = <<56400000, 56400000, 56400000>>)
              => /\ CountOf(PyStr(<<"N", "a">>)) = 4
                 /\ CountOf(PyStr(<<"C", "l">>)) = 4
                 /\ Cardinality(atoms) = 8

\* C3 happens: Cu filled into 3 cells per axis, 108 atoms returned.
C3_Witness ==
    /\ FullBoxUnrotated
    /\ lattice = make_fcc_lattice(PyStr(<<"C", "u">>), 36150000)
    /\ CellsPerAxis = 3
    /\ Cardinality(atoms) = 108

\* C4: a call of generate_atoms with upper other than True, False and None
\* fails: it raises, returns no bounds and fills nothing.
C4_InvalidUpperFails ==
    (call.op = "generate_atoms" /\ call.upper \notin {PyTrue, PyFalse, PyNone})
        => /\ result = AssertionError
           /\ atoms = {}

\* no factory matches the name: it does not end in .cif and, lower-cased, is
\* no catalog identifier and does not start with sic:
NoFactoryMatches(chars) ==
    /\ ~endswith(chars, <<".", "c", "i", "f">>)
    /\ lower(chars) \notin CatalogNames
    /\ ~startswith(lower(chars), <<"s", "i", "c", ":">>)

UnknownLatticePrefix ==
    <<"U", "n", "k", "n", "o", "w", "n", " ", "l", "a", "t", "t", "i", "c", "e", ":", " ">>

UnknownRequested ==
    /\ call.op = "get_named_lattice"
    /\ NoFactoryMatches(call.name.chars)

\* C5 as claimed: a name no factory matches raises the Unknown lattice error
\* naming the identifier as it was requested.
C5_NamesRequested ==
    UnknownRequested =>
        result = [raised |-> "ValueError",
                  msg |-> PyStr(UnknownLatticePrefix \o call.name.chars)]

\* C5 amended: a name no factory matches raises the Unknown lattice error
\* naming the identifier in lower case; no lattice is returned.
C5_NamesLowerCased ==
    UnknownRequested =>
        /\ result = [raised |-> "ValueError",
                     msg |-> PyStr(UnknownLatticePrefix \o lower(call.name.chars))]
        /\ ~IsLattice(result)

\* C5 happens: an unknown name with an upper-case letter was looked up and
\* the error raised.
C5_Witness ==
    /\ UnknownRequested
    /\ lower(call.name.chars) # call.name.chars
    /\ Raised(result)

\* the number of species symbols an argument carries: a bare symbol is one
NumSymbols(v) == IF v.type = "str" THEN 1 ELSE Len(v.items)

RequiredSymbols(f) == IF f \in Factories4 THEN 4 ELSE 2

\* C6: a factory of a two- or four-species structure given another number
\* of species symbols, a single bare symbol included, fails and builds no
\* lattice.
C6_WrongArityFails ==
    (call.op \in Factories2 \cup Factories4
        /\ NumSymbols(call.symbols) # RequiredSymbols(call.op))
        => result = AssertionError

\* C7 as claimed: on a builder with a rotation matrix, after any number of
\* generate_atoms calls that filled the box, the unit cell's transform is
\* the original rotated once.
C7_RotatedOnce ==
    (rot_mat # PyNone /\ ncalls.filled >= 1)
        => lattice.unit_cell.M_1 = MatMul(OriginalM_1(lattice.unit_cell), rot_mat)

\* C7 amended: the rotation is applied once per generate_atoms call that
\* passes the bounds check, so after k such calls the transform is the
\* original rotated k times (unchanged without a rotation matrix); the atom
\* list holds entries of the last call only, all inside its box.
C7_RotatedPerCall ==
    /\ lattice.unit_cell.M_1 =
          IF rot_mat # PyNone
          THEN RotatedTimes(OriginalM_1(lattice.unit_cell), rot_mat, ncalls.filled)
          ELSE OriginalM_1(lattice.unit_cell)
    /\ (call.op = "generate_atoms" /\ result # AssertionError) =>
          \A e \in atoms : \A k \in Axes :
              min_max[k][1] < e.pos[k] /\ e.pos[k] <= min_max[k][2]
    /\ (call.op = "generate_atoms" /\ result = AssertionError) => atoms = {}

\* C7 happens: two calls filled the box on a builder with a rotation matrix
\* and the transform is no longer the original rotated once.
C7_Witness ==
    /\ rot_mat # PyNone
    /\ ncalls.filled = 2
    /\ atoms # {}
    /\ lattice.unit_cell.M_1 # MatMul(OriginalM_1(lattice.unit_cell), rot_mat)

HalfWithMargin(upper) ==
    /\ call.op = "generate_atoms"
    /\ call.upper = upper
    /\ call.z_margin > 0

\* the bounds of the full box along axis k
FullBounds(k) == <<-(dim[k] \div 2) + eps, dim[k] \div 2 + eps>>

\* C8 as claimed: with a margin m > 0 the upper interval is shrunk by m / 2
\* and the lower interval is grown by m / 2, x and y as in the full box.
C8_LowerGrown ==
    /\ HalfWithMargin(PyTrue) =>
          min_max = <<FullBounds(1), FullBounds(2),
                      <<eps, FullBounds(3)[2] - call.z_margin \div 2>> >>
    /\ HalfWithMargin(PyFalse) =>
          min_max = <<FullBounds(1), FullBounds(2),
                      <<FullBounds(3)[1] - call.z_margin \div 2, eps>> >>

\* C8 amended: with a margin m > 0 both intervals are shrunk by m / 2 at the
\* outer face: the upper is (eps, dim_z/2 + eps - m/2], the lower is
\* (-dim_z/2 + eps + m/2, eps]; x and y are as in the full box.
C8_BothShrunk ==
    /\ HalfWithMargin(PyTrue) =>
          min_max = <<FullBounds(1), FullBounds(2),
                      <<eps, FullBounds(3)[2] - call.z_margin \div 2>> >>
    /\ HalfWithMargin(PyFalse) =>
          min_max = <<FullBounds(1), FullBounds(2),
                      <<FullBounds(3)[1] + call.z_margin \div 2, eps>> >>

\* C8 happens: the lower half was generated with a margin.
C8_Witness ==
    /\ HalfWithMargin(PyFalse)
    /\ result # AssertionError
    /\ min_max[3][2] = eps

\* the fractional position of atom m of node n, modulo the unit cell
SiteOf(lat, n, m) ==
    [k \in Axes |-> (lat.nodes[n].pos[k] + lat.nodes[n].atoms_in_node[m].pos[k]) % 8]

\* C9: in a lattice the lookup returns (the polytype lattices aside, whose
\* nodes are generated), no two distinct (node, atom-in-node) pairs give the
\* same fractional position modulo the unit cell.
C9_SitesDistinct ==
    (call.op = "get_named_lattice" /\ IsLattice(result)
        /\ result.unit_cell.system # "hexagonal")
        => \A n1, n2 \in 1..Len(result.nodes) :
             \A m1, m2 \in 1..Len(result.nodes[1].atoms_in_node) :
                <<n1, m1>> # <<n2, m2>>
                    => SiteOf(result, n1, m1) # SiteOf(result, n2, m2)

\* the element symbols the catalog entry passes to its factory
CatalogSymbols(n) ==
    IF n = <<"c", "u">> THEN {PyStr(<<"C", "u">>)}
    ELSE IF n = <<"a", "l">> THEN {PyStr(<<"A", "l">>)}
    ELSE IF n = <<"a", "g">> THEN {PyStr(<<"A", "g">>)}
    ELSE IF n = <<"n", "i">> THEN {PyStr(<<"N", "i">>)}
    ELSE IF n = <<"p", "t">> THEN {PyStr(<<"P", "t">>)}
    ELSE IF n = <<"f", "e">> THEN {PyStr(<<"F", "e">>)}
    ELSE IF n = <<"n", "b">> THEN {PyStr(<<"N", "b">>)}
    ELSE IF n = <<"w">> THEN {PyStr(<<"W">>)}
    ELSE IF n = <<"p", "o">> THEN {PyStr(<<"P", "o">>)}
    ELSE IF n = <<"n", "a", "c", "l">> THEN {PyStr(<<"N", "a">>), PyStr(<<"C", "l">>)}
    ELSE IF n = <<"n", "i", "t", "i">> THEN {PyStr(<<"N", "i">>), PyStr(<<"T", "i">>)}
    ELSE IF n = <<"c", "d", "t", "e">> THEN {PyStr(<<"C", "d">>), PyStr(<<"T", "e">>)}
    ELSE IF n = <<"c", "u", "z", "n", "g", "e", "s">> THEN {PyStr(<<"C", "u">>), PyStr(<<"Z", "n">>), PyStr(<<"G", "e">>), PyStr(<<"S">>)}
    ELSE IF n = <<"c", "u", "z", "n", "s", "n", "s", "e">> THEN {PyStr(<<"C", "u">>), PyStr(<<"Z", "n">>), PyStr(<<"G", "e">>), PyStr(<<"S">>)}
    ELSE IF n = <<"g", "r", "a", "p", "h", "i", "n", "e">> THEN {PyStr(<<"C">>)}
    ELSE IF n = <<"m", "g">> THEN {PyStr(<<"M", "g">>)}
    ELSE IF n = <<"c", "r", "n", "b">> THEN {PyStr(<<"C", "r">>), PyStr(<<"N", "b">>)}
    ELSE IF n = <<"n", "b", "o">> THEN {PyStr(<<"N", "b">>), PyStr(<<"O">>)}
    ELSE IF n = <<"t", "i", "a", "l">> THEN {PyStr(<<"T", "i">>), PyStr(<<"A", "l">>)}
    ELSE IF n = <<"s", "i", "c">> THEN {PyStr(<<"S", "i">>), PyStr(<<"C">>)}
    ELSE IF n = <<"s", "i">> THEN {PyStr(<<"S", "i">>)}
    ELSE IF n = <<"d", "i", "a", "m", "o", "n", "d">> THEN {PyStr(<<"C">>)}
    ELSE IF startswith(n, <<"s", "i", "c", ":">>) THEN {PyStr(<<"S", "i">>), PyStr(<<"C">>)}
    ELSE IF n = <<"s", "n">> THEN {PyStr(<<"S", "n">>)}
    ELSE {}

\* C10: in a lattice the lookup returns, the species of every atom-in-node
\* is one of the element symbols the catalog entry passes to its factory.
C10_SpeciesAreSymbols ==
    (call.op = "get_named_lattice" /\ IsLattice(result))
        => \A n \in 1..Len(result.nodes) :
             \A m \in 1..Len(result.nodes[n].atoms_in_node) :
                result.nodes[n].atoms_in_node[m].name
                    \in CatalogSymbols(lower(call.name.chars))

====
